---- MODULE Spec2Model ----
(***************************************************************************)
(* Model of the cache engine (LRUCache), its fallback store                *)
(* (MongoCacheFallbackClient), the cache-aside helper                      *)
(* (getFromCacheOrFetch) and the request dispatch of WebSocketServer.      *)
(*                                                                         *)
(* Every `await` of the source is a point where an asynchronous call is    *)
(* suspended and other calls may run; a call is therefore modelled as a    *)
(* sequence of steps, one per stretch of code between two suspensions.     *)
(***************************************************************************)
EXTENDS Integers, Sequences, FiniteSets, TLC

(* ------------------------------ bounds --------------------------------- *)

\* Largest capacity an LRUCache is constructed with.
MaxCap == 2
\* Number of callers whose calls may be in flight at the same time.
NProcs == 2
\* Most puts that a get may have left running without awaiting them.
MaxDetached == 1
\* Most calls issued in one behaviour of the specifications with concurrent callers.
MaxCalls == 4
\* Most messages the server receives in one behaviour.
MaxMessages == 3
\* Most members of a params object.
MaxFields == 2
\* The constructor is tried with capacities from -MaxNeg to MaxCap.
MaxNeg == 1

Procs == 1 .. NProcs
\* The single caller of the one-call-at-a-time specifications.
Caller == CHOOSE p \in Procs : \A q \in Procs : p <= q

Keys == {"a", "b", "c"}
Values == {"1", "2", "3"}
\* The values a caller puts under key k.
ValuesOf(k) == IF k = "c" THEN {"1", "3"} ELSE {"1", "2"}
\* The keys that getFromCacheOrFetch is called with.
FetchKeys == {"a", "b"}

(* --------------------------- program values ---------------------------- *)

\* MongoCacheFallbackClient.state
Disconnected == 0
Connected == 1

Undefined == "undefined"
Null == "null"
NoKey == "-"

VARIABLES
    capacity,   \* LRUCache.capacity
    cache,      \* LRUCache.cache: a Map, as the sequence of its entries in insertion order
    state,      \* MongoCacheFallbackClient.state
    docs,       \* the documents of MongoCacheFallbackClient.collection
    task,       \* per caller: the call it has in flight, where it is suspended, its locals
    detached,   \* the puts started by get (cache.ts:35) and not awaited, still suspended
    ret,        \* per caller: the value its last call returned
    \* observers (history of the calls, read by the properties only)
    recency,    \* the keys in the order of their most recent put or get
    gotten,     \* the keys whose most recent touch was a get that hit in memory
    hist,       \* the calls made so far, while they follow Scenario; or the call before
                \* the newest and what was known when the newest call started
    issued,     \* the number of calls issued (concurrent specifications)
    flight,     \* per key: the getFromCacheOrFetch calls that overlap the first of them
    sent,       \* the last response sent, with the message it answers
    probe       \* the arguments last given to a function called on its own, and its result

cacheVars == <<capacity, cache, state, docs>>
callVars == <<task, detached, ret>>
obsVars == <<recency, gotten, hist, probe>>
seqVars == <<recency, gotten, hist, issued, sent, probe>>
vars == <<capacity, cache, state, docs, task, detached, ret, recency, gotten, hist, issued,
          flight, sent, probe>>

(* ------------------------- Map<K, V> (cache.ts:9) ---------------------- *)

MapHas(c, k) == \E i \in 1 .. Len(c) : c[i].key = k

MapGet(c, k) == (CHOOSE e \in {c[i] : i \in 1 .. Len(c)} : e.key = k).value

MapDelete(c, k) == SelectSeq(c, LAMBDA e : e.key # k)

\* Map.set keeps the position of a key that is present and appends a new one.
MapSet(c, k, v) ==
    IF MapHas(c, k)
    THEN [i \in 1 .. Len(c) |-> IF c[i].key = k THEN [key |-> k, value |-> v] ELSE c[i]]
    ELSE Append(c, [key |-> k, value |-> v])

MapKeys(c) == {c[i].key : i \in 1 .. Len(c)}

(* ------------------- MongoCacheFallbackClient documents ---------------- *)

UpdateOneUpsert_Dropped(d, k, v) == d

UpdateOneUpsert_Insert(d, k, v) == d \cup {[key |-> k, value |-> v]}

\* collection.updateOne({key}, {$set: value}, {upsert: true})
UpdateOneUpsert(d, k, v) ==
    IF \E x \in d : x.key = k
    THEN LET x == CHOOSE y \in d : y.key = k
         IN  (d \ {x}) \cup {[key |-> k, value |-> v]}
    ELSE d \cup {[key |-> k, value |-> v]}

\* collection.findOne({key}): the values of the documents it may return (none: null)
FindOne(d, k) ==
    IF \E x \in d : x.key = k THEN {x.value : x \in {y \in d : y.key = k}} ELSE {Null}

(* ------------------------------ LRUCache ------------------------------- *)

PutEvict_NoInsert(c, lruKey, k, v) == MapDelete(c, lruKey)

LRUCacheNew_AcceptsZero(n) ==
    IF n < 0
    THEN [threw |-> TRUE, capacity |-> n, cache |-> <<>>]
    ELSE [threw |-> FALSE, capacity |-> n, cache |-> <<>>]

\* new LRUCache(capacity, fallbackClient) (cache.ts:12-19): it throws, or the fields of
\* the instance.
LRUCacheNew(n) ==
    IF n <= 0
    THEN [threw |-> TRUE, capacity |-> n, cache |-> <<>>]
    ELSE [threw |-> FALSE, capacity |-> n, cache |-> <<>>]

\* get, hit in memory (cache.ts:24-27): delete and set again, so the key becomes the last
GetHit_NoPromote(c, k) == c
GetHit(c, k) == MapSet(MapDelete(c, k), k, MapGet(c, k))

\* put: the key to evict (cache.ts:48), the first key of the Map
LruKey_Newest(c) == c[Len(c)].key
LruKey(c) == c[1].key

\* put after the awaited fallback write (cache.ts:58, 62)
PutEvict_NoDelete(c, lruKey, k, v) == MapSet(c, k, v)
PutEvict(c, lruKey, k, v) == MapSet(MapDelete(c, lruKey), k, v)

PutEntry_NoPromote(c, k, v) ==
    IF MapHas(c, k)
    THEN [pc |-> "done", cache |-> MapSet(c, k, v),
          lruKey |-> NoKey, lruValue |-> Undefined]
    ELSE IF Len(c) >= capacity
    THEN [pc |-> IF state # Connected THEN "put_wait" ELSE "put_io", cache |-> c,
          lruKey |-> LruKey(c), lruValue |-> MapGet(c, LruKey(c))]
    ELSE [pc |-> "done", cache |-> MapSet(c, k, v),
          lruKey |-> NoKey, lruValue |-> Undefined]

PutEntry_AlwaysWrites(c, k, v) ==
    IF MapHas(c, k)
    THEN [pc |-> "done", cache |-> MapSet(MapDelete(c, k), k, v),
          lruKey |-> NoKey, lruValue |-> Undefined]
    ELSE IF Len(c) >= capacity
    THEN [pc |-> "put_io", cache |-> c,
          lruKey |-> LruKey(c), lruValue |-> MapGet(c, LruKey(c))]
    ELSE [pc |-> "done", cache |-> MapSet(c, k, v),
          lruKey |-> NoKey, lruValue |-> Undefined]

\* put up to its first suspension (cache.ts:44-53); pc "done": it returned without one.
\* fallbackClient.put reads state when it is called (cache.ts:120).
PutEntry(c, k, v) ==
    IF MapHas(c, k)
    THEN [pc |-> "done", cache |-> MapSet(MapDelete(c, k), k, v),
          lruKey |-> NoKey, lruValue |-> Undefined]
    ELSE IF Len(c) >= capacity
    THEN [pc |-> IF state # Connected THEN "put_wait" ELSE "put_io", cache |-> c,
          lruKey |-> LruKey(c), lruValue |-> MapGet(c, LruKey(c))]
    ELSE [pc |-> "done", cache |-> MapSet(c, k, v),
          lruKey |-> NoKey, lruValue |-> Undefined]

(* ---------------- request envelope and ServerResponse ------------------- *)

\* A field that the JSON text does not hold (undefined once parsed).
Absent == "absent"

\* status codes (websocket.ts:11-18)
REQUEST_SUCCUESS == 200
REQUEST_FAILED == 400
NOT_ALLOWED == 500
REQUEST_TIMEOUT == 408
REQUEST_CANCELED == 499
REQUEST_INTERNAL_ERROR == 503
NOT_FOUND == 404
REQUEST_RATE_LIMITED == 429

\* class ServerResponse (websocket.ts:252-266). A message is a text, a handler's result or,
\* when a response is wrapped in a response, a ServerResponse; a reason is undefined, a
\* text or an error object.
ServerResponse(status, message, reason) ==
    [status |-> status, message |-> message, reason |-> reason]

MsgText(s) == [kind |-> "string", text |-> s]
MsgResult(v) == [kind |-> "result", value |-> v]
NoReason == [kind |-> "undefined", of |-> ""]
ReasonText(m) == [kind |-> "string", of |-> m]
ReasonObject(m) == [kind |-> "object", of |-> m]

\* WebSocketServer.success (websocket.ts:221-223)
success(message) == ServerResponse(REQUEST_SUCCUESS, message, NoReason)

error_AlwaysFailed(outcome, message, reason) ==
    ServerResponse(REQUEST_FAILED, message, reason)

\* WebSocketServer.error (websocket.ts:225-239)
error(outcome, message, reason) ==
    ServerResponse(
        CASE outcome = "Failure" -> REQUEST_FAILED
          [] outcome = "NotAllowed" -> NOT_ALLOWED
          [] outcome = "Timeout" -> REQUEST_TIMEOUT
          [] outcome = "Canceled" -> REQUEST_CANCELED
          [] outcome = "InternalError" -> REQUEST_INTERNAL_ERROR
          [] outcome = "NotFound" -> NOT_FOUND
          [] outcome = "RateLimited" -> REQUEST_RATE_LIMITED
          [] OTHER -> REQUEST_FAILED,
        message, reason)

\* The inbound text of a message: malformed JSON, or a JSON object with these fields.
\* args is "flat" when the task arguments are the members of args itself (the shape
\* Parser reads) and "nested" when they are under args.for_task (the documented shape);
\* function, look_for, where_ and params are those task arguments; caller tells whether
\* the object has a caller member.
Envelope(target, args, function, look_for, where_, params) ==
    [json |-> "object", caller |-> TRUE, target |-> target, args |-> args,
     function |-> function, look_for |-> look_for, where_ |-> where_, params |-> params]

NoCaller(m) == [m EXCEPT !.caller = FALSE]

Malformed == [Envelope(Absent, Absent, Absent, FALSE, Absent, Absent) EXCEPT !.json = "malformed"]
NoEnvelope == [Envelope(Absent, Absent, Absent, FALSE, Absent, Absent) EXCEPT !.json = "none"]

\* params as JSON.stringify writes them: an object without fetch_type, and one whose
\* fetch_type names the handler's source, with the fields the handler requires.
EmptyParams == "{}"
GoodParams == "{fetch_type}"

\* The names under which the constructor registers handlers (websocket.ts:43-76).
Registered == {"instagram_polling", "reddit_polling", "twitter_polling"}

Messages ==
    {Malformed}
    \cup {Envelope(t, "flat", Absent, FALSE, Absent, Absent) :
              t \in {"database", "unknown", "analytics", Absent}}
    \cup {Envelope("task", Absent, Absent, FALSE, Absent, Absent),
          Envelope("task", "nested", "aggregated_polling", TRUE, "reddit_polling", GoodParams),
          Envelope("task", "nested", "web_search", TRUE, "reddit_polling", GoodParams),
          NoCaller(Envelope("task", "flat", "aggregated_polling", TRUE, "reddit_polling",
                            GoodParams))}
    \cup {Envelope("task", "flat", f, TRUE, "reddit_polling", GoodParams) :
              f \in {"web_search", Absent}}
    \cup {Envelope("task", "flat", "aggregated_polling", FALSE, Absent, ps) :
              ps \in {Absent, EmptyParams, GoodParams}}
    \cup {Envelope("task", "flat", "aggregated_polling", TRUE, w, ps) :
              w \in Registered \cup {"facebook_polling", "", Absent},
              ps \in {Absent, EmptyParams, GoodParams}}

parseToCallRequest_DatabaseInvalid(m) ==
    IF m.json # "object"
    THEN [threw |-> TRUE, error |-> "SyntaxError", target |-> Absent, for_task |-> FALSE]
    ELSE IF m.target = "task"
    THEN [threw |-> FALSE, error |-> "", target |-> m.target, for_task |-> m.args # Absent]
    ELSE [threw |-> TRUE, error |-> "Invalid target", target |-> Absent, for_task |-> FALSE]

\* Parser.parseToCallRequest (params.ts, part_008:73-99): JSON.parse throws on malformed
\* text; for_task is args itself when target is "task"; any target but "task" and
\* "database" throws.
parseToCallRequest(m) ==
    IF m.json # "object"
    THEN [threw |-> TRUE, error |-> "SyntaxError", target |-> Absent, for_task |-> FALSE]
    ELSE IF m.target = "task"
    THEN [threw |-> FALSE, error |-> "", target |-> m.target, for_task |-> m.args # Absent]
    ELSE IF m.target = "database"
    THEN [threw |-> FALSE, error |-> "", target |-> m.target, for_task |-> FALSE]
    ELSE [threw |-> TRUE, error |-> "Invalid target", target |-> Absent, for_task |-> FALSE]

\* A member of req.args.for_task: of args itself, so with the documented nested shape the
\* only member is for_task and function, look_for and params are undefined.
TaskArg(m, field) == IF m.args = "flat" THEN m[field] ELSE Absent
HasLookFor(m) == m.args = "flat" /\ m.look_for

FunctionAllowed_Any(req, m) == req.for_task

\* The function check of respond (websocket.ts:165): for_task is set and its function is
\* the supported one.
FunctionAllowed(req, m) == req.for_task /\ TaskArg(m, "function") = "aggregated_polling"

\* joinCaheKeyStr (logging.ts:145-147) as the handlers' poll calls it (twitter.ts:236,
\* instagram.ts:704, part_007:405)
joinCaheKeyStr(a, b) == a \o "+" \o b
PollKey(where_, params) ==
    joinCaheKeyStr(CASE where_ = "instagram_polling" -> "instagram"
                     [] where_ = "reddit_polling" -> "reddit"
                     [] OTHER -> "twitter",
                   params)

\* The params of a request as JSON.parse leaves them: the members in the order of the text,
\* each a pair of a name and a value, no name twice.
ParamFields == {"fetch_type", "sort"}
ParamValues == {"1", "2"}
ParamObjects ==
    {o \in UNION {[1 .. n -> ParamFields \X ParamValues] : n \in 0 .. MaxFields} :
        \A i, j \in DOMAIN o : i # j => o[i][1] # o[j][1]}

\* JSON.stringify(args) in the handlers (websocket.ts:47, 58, 69): the members in the
\* object's own order.
RECURSIVE StringifyMembers(_)
StringifyMembers(o) ==
    IF o = <<>> THEN ""
    ELSE o[1][1] \o ":" \o o[1][2]
         \o (IF Len(o) > 1 THEN "," \o StringifyMembers(Tail(o)) ELSE "")

Stringify(o) == "{" \o StringifyMembers(o) \o "}"

\* WebSocketServer.handle up to the handler's call (websocket.ts:185-210): a response, or
\* the handler to invoke. An exception of handle itself (look_for undefined) is caught by
\* respond (websocket.ts:176-181).
handle(m) ==
    IF ~HasLookFor(m)
    THEN [done |-> TRUE, threw |-> TRUE,
          resp |-> error("Failure", MsgText("Failed to make a response for the request."),
                         ReasonObject("TypeError"))]
    ELSE IF TaskArg(m, "where_") \in {Absent, ""}
    THEN [done |-> TRUE, threw |-> FALSE,
          resp |-> error("Failure", MsgText("The 'where_' field is required."), NoReason)]
    ELSE IF TaskArg(m, "params") = Absent
    THEN [done |-> TRUE, threw |-> FALSE,
          resp |-> error("Failure", MsgText("The 'params' field is required."), NoReason)]
    ELSE IF TaskArg(m, "where_") \notin Registered
    THEN [done |-> TRUE, threw |-> FALSE,
          resp |-> error("Failure", MsgText("Request failed."),
                         ReasonText("No function found"))]
    ELSE [done |-> FALSE, threw |-> FALSE, resp |-> success(MsgText(""))]

\* WebSocketServer.respond up to the handler's call (websocket.ts:145-175): the response
\* it returns, or done = FALSE when the handler is invoked.
respond(m) ==
    LET req == parseToCallRequest(m) IN
    IF req.threw
    THEN [done |-> TRUE,
          resp |-> error("Failure", MsgText("Failed to make a response for the request."),
                         ReasonObject(req.error))]
    ELSE IF req.target # "task"
    THEN [done |-> TRUE,
          resp |-> error("NotAllowed", MsgText("You are trying to perfoorm a task this socket does not support"),
                         NoReason)]
    ELSE IF ~FunctionAllowed(req, m)
    THEN [done |-> TRUE,
          resp |-> error("NotAllowed", MsgText("This socket only supports the 'aggregated_polling' function."),
                         NoReason)]
    ELSE LET h == handle(m) IN
         IF ~h.done THEN [done |-> FALSE, resp |-> h.resp]
         ELSE IF h.threw THEN [done |-> TRUE, resp |-> h.resp]
         ELSE [done |-> TRUE, resp |-> success(h.resp)]

\* The handler's catch (websocket.ts:46-51, 57-62, 68-73): the reddit handler rethrows the
\* error it caught; the instagram and twitter handlers throw the logging function `error`,
\* whose message is undefined.
HandlerRethrow(where_, m) == IF where_ = "reddit_polling" THEN ReasonText(m) ELSE NoReason

\* WebSocketServer.handle after the handler settled (websocket.ts:210-214), wrapped by
\* respond (websocket.ts:173-175).
respondAfterHandler(where_, out) ==
    IF out.ok
    THEN success(success(MsgResult(out.value)))
    ELSE success(error("Failure", MsgText("Request failed."),
                       HandlerRethrow(where_, out.message)))

IdleTask ==
    [pc |-> "idle", kind |-> "none", key |-> NoKey, value |-> Undefined,
     lruKey |-> NoKey, lruValue |-> Undefined, fallbackValue |-> Null,
     env |-> NoEnvelope, how |-> "none", resp |-> success(MsgText(""))]

\* How an awaited call ends: it returns a value, or it throws an error with a message.
Ok(v) == [ok |-> TRUE, value |-> v, message |-> ""]
Thrown(m) == [ok |-> FALSE, value |-> Undefined, message |-> m]
\* What the caller of a call that threw records in ret.
ErrorRet == "error"

(* ---- observer of getFromCacheOrFetch: the calls overlapping the first ---- *)

\* flight[k]: the newest group of calls for key k. A group is opened by a call that starts
\* when the opener of the previous group has returned; the calls that start while the
\* opener is still in flight join its group. leader is the opener while it is in flight
\* (0 afterwards), members are the callers of the group still in flight, size counts the
\* calls of the group, fetches the invocations of fetchFn by them and results collects
\* what they returned; uncached tells that the key was neither in memory nor in the
\* fallback store when the group was opened.
NoFlight == [leader |-> 0, members |-> {}, size |-> 0, fetches |-> 0, results |-> {},
             uncached |-> FALSE]

Join(f, p, k) ==
    IF f[k].leader # 0
    THEN [f EXCEPT ![k].size = @ + 1, ![k].members = @ \cup {p}]
    ELSE [f EXCEPT ![k] = [leader |-> p, members |-> {p}, size |-> 1, fetches |-> 0,
                           results |-> {},
                           uncached |-> ~MapHas(cache, k) /\ FindOne(docs, k) = {Null}]]

CountFetch(f, p, t) ==
    IF t.kind = "fetch" /\ p \in f[t.key].members
    THEN [f EXCEPT ![t.key].fetches = @ + 1]
    ELSE f

Leave(f, p, t, out) ==
    IF t.kind = "fetch" /\ p \in f[t.key].members
    THEN [f EXCEPT ![t.key].results = @ \cup {IF out.ok THEN out.value ELSE ErrorRet},
                   ![t.key].members = @ \ {p},
                   ![t.key].leader = IF @ = p THEN 0 ELSE @]
    ELSE f

(* ------------------------- the steps of a call ------------------------- *)

Init_Connected ==
    /\ capacity \in 1 .. MaxCap
    /\ cache = <<>>
    /\ state = Connected
    /\ docs = {}
    /\ task = [p \in Procs |-> IdleTask]
    /\ detached = <<>>
    /\ ret = [p \in Procs |-> Undefined]
    /\ recency = <<>>
    /\ gotten = {}
    /\ hist = <<>>
    /\ issued = 0
    /\ flight = [k \in Keys |-> NoFlight]
    /\ sent = [env |-> NoEnvelope, how |-> "none", value |-> Undefined,
               resp |-> success(MsgText("")), sends |-> 0]
    /\ probe = <<>>

Init ==
    /\ capacity \in 1 .. MaxCap
    /\ cache = <<>>
    /\ state = Disconnected
    /\ docs = {}
    /\ task = [p \in Procs |-> IdleTask]
    /\ detached = <<>>
    /\ ret = [p \in Procs |-> Undefined]
    /\ recency = <<>>
    /\ gotten = {}
    /\ hist = <<>>
    /\ issued = 0
    /\ flight = [k \in Keys |-> NoFlight]
    /\ sent = [env |-> NoEnvelope, how |-> "none", value |-> Undefined,
               resp |-> success(MsgText("")), sends |-> 0]
    /\ probe = <<>>

\* The call of caller p (its record is t) ends with `out`: LRUCache.get and put return to
\* their caller, getFromCacheOrFetch returns or throws (logging.ts:133, 138, 142).
\* For a message the handler's result goes through handle and respond, and the response
\* waits to be sent (websocket.ts:135-137); `how` records how the handler ended.
Finish(p, t, out, f) ==
    /\ IF t.kind = "msg"
       THEN /\ task' = [task EXCEPT ![p] =
                    [t EXCEPT !.pc = "send",
                              !.value = out.value,
                              !.how = IF ~out.ok THEN "failed"
                                      ELSE IF t.pc = "idle" \/ t.pc = "get_wait" THEN "cached"
                                      ELSE "fetched",
                              !.resp = respondAfterHandler(TaskArg(t.env, "where_"), out)]]
            /\ ret' = ret
       ELSE /\ task' = [task EXCEPT ![p] = IdleTask]
            /\ ret' = [ret EXCEPT ![p] = IF out.ok THEN out.value ELSE ErrorRet]
    /\ flight' = Leave(f, p, t, out)

AfterGet_AlwaysFetch(p, t, v, f) ==
    IF t.kind = "get"
    THEN Finish(p, t, Ok(v), f)
    ELSE /\ task' = [task EXCEPT ![p] = [t EXCEPT !.pc = "fetching"]]
         /\ ret' = ret
         /\ flight' = CountFetch(f, p, t)

\* cache.get has returned v to the code that awaits it: to the caller itself, or to
\* getFromCacheOrFetch, which returns a value that is not undefined (logging.ts:131-134)
\* and otherwise invokes fetchFn (logging.ts:138).
AfterGet(p, t, v, f) ==
    IF t.kind = "get" \/ v # Undefined
    THEN Finish(p, t, Ok(v), f)
    ELSE /\ task' = [task EXCEPT ![p] = [t EXCEPT !.pc = "fetching"]]
         /\ ret' = ret
         /\ flight' = CountFetch(f, p, t)

\* cache.get(t.key) up to its first suspension (cache.ts:23-32).
\* fallbackClient.get reads state when it is called (cache.ts:106).
BeginGet(p, t, f) ==
    /\ IF MapHas(cache, t.key)
       THEN /\ cache' = GetHit(cache, t.key)
            /\ AfterGet(p, t, MapGet(cache, t.key), f)
       ELSE /\ cache' = cache
            /\ task' = [task EXCEPT ![p] =
                    [t EXCEPT !.pc = IF state # Connected THEN "get_wait" ELSE "get_io"]]
            /\ ret' = ret
            /\ flight' = f
    /\ UNCHANGED <<capacity, state, docs, detached>>

\* cache.put(t.key, t.value) up to its first suspension (cache.ts:44-53), awaited by the
\* caller itself or by getFromCacheOrFetch (logging.ts:141-142).
BeginPut(p, t, f) ==
    LET e == PutEntry(cache, t.key, t.value) IN
    /\ cache' = e.cache
    /\ IF e.pc = "done"
       THEN Finish(p, t, Ok(IF t.kind = "put" THEN Undefined ELSE t.value), f)
       ELSE /\ task' = [task EXCEPT ![p] =
                    [t EXCEPT !.pc = e.pc, !.lruKey = e.lruKey, !.lruValue = e.lruValue]]
            /\ ret' = ret
            /\ flight' = f
    /\ UNCHANGED <<capacity, state, docs, detached>>

Connect_KeepsState(ok) ==
    /\ state' = IF ok THEN Connected ELSE state
    /\ UNCHANGED <<capacity, cache, docs, task, detached, ret, flight>>

\* MongoCacheFallbackClient.connect (cache.ts:94-103)
Connect(ok) ==
    /\ state' = IF ok THEN Connected ELSE Disconnected
    /\ UNCHANGED <<capacity, cache, docs, task, detached, ret, flight>>

\* await cache.put(k, v)
CallPut(p, k, v) ==
    /\ task[p].pc = "idle"
    /\ BeginPut(p, [IdleTask EXCEPT !.kind = "put", !.key = k, !.value = v], flight)

\* await cache.get(k)
CallGet(p, k) ==
    /\ task[p].pc = "idle"
    /\ BeginGet(p, [IdleTask EXCEPT !.kind = "get", !.key = k], flight)

CallHas_Promotes(p, k) ==
    /\ task[p].pc = "idle"
    /\ ret' = [ret EXCEPT ![p] = MapHas(cache, k)]
    /\ cache' = IF MapHas(cache, k) THEN GetHit(cache, k) ELSE cache
    /\ UNCHANGED <<capacity, state, docs, task, detached, flight>>

\* cache.has(k) (cache.ts:65-67)
CallHas(p, k) ==
    /\ task[p].pc = "idle"
    /\ ret' = [ret EXCEPT ![p] = MapHas(cache, k)]
    /\ UNCHANGED <<capacity, cache, state, docs, task, detached, flight>>

\* cache.size() (cache.ts:75-77)
CallSize(p) ==
    /\ task[p].pc = "idle"
    /\ ret' = [ret EXCEPT ![p] = Len(cache)]
    /\ UNCHANGED <<capacity, cache, state, docs, task, detached, flight>>

\* cache.clear() (cache.ts:70-72)
CallClear(p) ==
    /\ task[p].pc = "idle"
    /\ cache' = <<>>
    /\ ret' = [ret EXCEPT ![p] = Undefined]
    /\ UNCHANGED <<capacity, state, docs, task, detached, flight>>

\* await getFromCacheOrFetch(k, cache, fetchFn) (logging.ts:127-130)
CallFetch(p, k) ==
    /\ task[p].pc = "idle"
    /\ LET f == Join(flight, p, k) IN
       BeginGet(p, [IdleTask EXCEPT !.kind = "fetch", !.key = k], f)

FallbackPutIO_Fatal(p, ok) ==
    /\ task[p].pc = "put_io"
    /\ IF ok
       THEN /\ docs' = UpdateOneUpsert(docs, task[p].lruKey, task[p].lruValue)
            /\ task' = [task EXCEPT ![p].pc = "put_wait"]
            /\ ret' = ret
       ELSE /\ docs' = docs
            /\ task' = [task EXCEPT ![p] = IdleTask]
            /\ ret' = [ret EXCEPT ![p] = ErrorRet]
    /\ UNCHANGED <<capacity, cache, state, detached, flight>>

\* collection.updateOne of fallbackClient.put settles (cache.ts:125-133): the document is
\* written, or the backend fails and the error is caught.
FallbackPutIO(p, ok) ==
    /\ task[p].pc = "put_io"
    /\ docs' = IF ok THEN UpdateOneUpsert(docs, task[p].lruKey, task[p].lruValue) ELSE docs
    /\ task' = [task EXCEPT ![p].pc = "put_wait"]
    /\ UNCHANGED <<capacity, cache, state, detached, ret, flight>>

\* put resumes after the awaited fallback write (cache.ts:58-62) and returns
PutResume(p) ==
    /\ task[p].pc = "put_wait"
    /\ cache' = PutEvict(cache, task[p].lruKey, task[p].key, task[p].value)
    /\ Finish(p, task[p], Ok(IF task[p].kind = "put" THEN Undefined ELSE task[p].value),
              flight)
    /\ UNCHANGED <<capacity, state, docs, detached>>

FallbackGetIO_Raises(p, ok) ==
    /\ task[p].pc = "get_io"
    /\ IF ok
       THEN /\ \E d \in FindOne(docs, task[p].key) :
                  task' = [task EXCEPT ![p].pc = "get_wait", ![p].fallbackValue = d]
            /\ ret' = ret
       ELSE /\ task' = [task EXCEPT ![p] = IdleTask]
            /\ ret' = [ret EXCEPT ![p] = ErrorRet]
    /\ UNCHANGED <<capacity, cache, state, docs, detached, flight>>

\* collection.findOne of fallbackClient.get settles (cache.ts:111-116): a document, null,
\* or a backend error that is caught and mapped to null.
FallbackGetIO(p, ok) ==
    /\ task[p].pc = "get_io"
    /\ \E d \in (IF ok THEN FindOne(docs, task[p].key) ELSE {Null}) :
          task' = [task EXCEPT ![p].pc = "get_wait", ![p].fallbackValue = d]
    /\ UNCHANGED <<capacity, cache, state, docs, detached, ret, flight>>

\* get resumes after the awaited fallback read (cache.ts:33-39): with a document it calls
\* this.put(key, value) without awaiting it and returns the value; the put runs up to its
\* own first suspension and, if it has one, stays behind in `detached`.
GetResume(p) ==
    /\ task[p].pc = "get_wait"
    /\ IF task[p].fallbackValue # Null
       THEN LET e == PutEntry(cache, task[p].key, task[p].fallbackValue) IN
            /\ e.pc # "done" => Len(detached) < MaxDetached
            /\ cache' = e.cache
            /\ detached' = IF e.pc = "done" THEN detached
                           ELSE Append(detached,
                                    [pc |-> e.pc, key |-> task[p].key,
                                     value |-> task[p].fallbackValue,
                                     lruKey |-> e.lruKey, lruValue |-> e.lruValue])
            /\ AfterGet(p, task[p], task[p].fallbackValue, flight)
       ELSE /\ cache' = cache
            /\ detached' = detached
            /\ AfterGet(p, task[p], Undefined, flight)
    /\ UNCHANGED <<capacity, state, docs>>

\* What fetchFn of a handler's poll may end with (twitter.ts:195-234, instagram.ts:690-703,
\* part_007:406-437): without a fetch_type that names the source it throws.
PollOutcomes(t) ==
    IF t.kind = "msg" /\ TaskArg(t.env, "params") = EmptyParams
    THEN {Thrown("Unsupported fetch type")}
    ELSE {Ok(v) : v \in {"1", "2"}} \cup {Thrown("scrape failed")}

FetchSettle_CachesFailure(p, out) ==
    /\ task[p].pc = "fetching"
    /\ out \in PollOutcomes(task[p])
    /\ BeginPut(p, [task[p] EXCEPT !.value = IF out.ok THEN out.value ELSE ErrorRet], flight)

FetchSettle_HangsOnFailure(p, out) ==
    /\ task[p].pc = "fetching"
    /\ out \in PollOutcomes(task[p])
    /\ IF out.ok
       THEN BeginPut(p, [task[p] EXCEPT !.value = out.value], flight)
       ELSE /\ task' = [task EXCEPT ![p].pc = "marker_wait"]
            /\ UNCHANGED <<capacity, cache, state, docs, detached, ret, flight>>

\* fetchFn settles (logging.ts:138-142): it throws, and getFromCacheOrFetch throws with it,
\* or it returns fetchedValue, which is put into the cache.
FetchSettle(p, out) ==
    /\ task[p].pc = "fetching"
    /\ out \in PollOutcomes(task[p])
    /\ IF out.ok
       THEN BeginPut(p, [task[p] EXCEPT !.value = out.value], flight)
       ELSE /\ Finish(p, task[p], out, flight)
            /\ UNCHANGED <<capacity, cache, state, docs, detached>>

\* ws.send(resp.toJson()) returns, or it raises (websocket.ts:137).
SendOutcomes == {"returned", "raised"}

\* The invocations of ws.send by handleMessage for one message (websocket.ts:133-141): the
\* one in the try block and, when that one raises, the one in the catch block.
wsSends(first) == IF first = "raised" THEN 2 ELSE 1

\* A message arrives on connection p (websocket.ts:104-106, 132-135): respond runs up to
\* its first suspension, which is cache.get in getFromCacheOrFetch, called by the
\* handler's poll; or it returns a response without suspending, which is sent before any
\* other message is handled.
Receive(p, m) ==
    /\ task[p].pc = "idle"
    /\ LET r == respond(m) IN
       IF r.done
       THEN /\ \E first \in SendOutcomes :
                  sent' = [env |-> m, how |-> "none", value |-> Undefined, resp |-> r.resp,
                           sends |-> wsSends(first)]
            /\ UNCHANGED <<capacity, cache, state, docs, task, detached, ret, flight>>
       ELSE /\ sent' = sent
            /\ BeginGet(p, [IdleTask EXCEPT !.kind = "msg", !.env = m,
                                        !.key = PollKey(TaskArg(m, "where_"),
                                                        TaskArg(m, "params"))],
                     flight)

\* handleMessage resumes with the response and sends it (websocket.ts:135-141)
Send(p) ==
    /\ task[p].pc = "send"
    /\ \E first \in SendOutcomes :
          sent' = [env |-> task[p].env, how |-> task[p].how, value |-> task[p].value,
                   resp |-> task[p].resp, sends |-> wsSends(first)]
    /\ task' = [task EXCEPT ![p] = IdleTask]
    /\ UNCHANGED <<capacity, cache, state, docs, detached, ret, flight>>

RemoveAt(s, i) == SubSeq(s, 1, i - 1) \o SubSeq(s, i + 1, Len(s))

\* The fallback write of a put that get left running settles (cache.ts:125-133).
DetachedPutIO(i, ok) ==
    /\ i \in 1 .. Len(detached)
    /\ detached[i].pc = "put_io"
    /\ docs' = IF ok THEN UpdateOneUpsert(docs, detached[i].lruKey, detached[i].lruValue)
               ELSE docs
    /\ detached' = [detached EXCEPT ![i].pc = "put_wait"]
    /\ UNCHANGED <<capacity, cache, state, task, ret, flight>>

\* A put that get left running resumes (cache.ts:58-62); nobody awaits it.
DetachedPutResume(i) ==
    /\ i \in 1 .. Len(detached)
    /\ detached[i].pc = "put_wait"
    /\ cache' = PutEvict(cache, detached[i].lruKey, detached[i].key, detached[i].value)
    /\ detached' = RemoveAt(detached, i)
    /\ UNCHANGED <<capacity, state, docs, task, ret, flight>>

(* ------------------------------ observers ------------------------------ *)

Scenario ==
    << <<"put", "a", "1">>, <<"put", "b", "2">>, <<"get", "a", Undefined>>,
       <<"put", "c", "3">> >>

Off == << <<"off", NoKey, Undefined>> >>

\* A call (put or get) of key k is made: k becomes the most recently touched key. The keys
\* that are no longer in memory are forgotten.
Touch(op, k, v) ==
    /\ recency' = Append(SelectSeq(recency, LAMBDA x : x # k /\ MapHas(cache, x)), k)
    /\ gotten' = IF op = "get" /\ MapHas(cache, k)
                 THEN (gotten \cap MapKeys(cache)) \cup {k}
                 ELSE (gotten \cap MapKeys(cache)) \ {k}
    /\ hist' = IF hist # Off /\ Len(hist) < Len(Scenario)
                    /\ Scenario[Len(hist) + 1] = <<op, k, v>>
               THEN Append(hist, <<op, k, v>>)
               ELSE Off

(* --------------------------- specifications ---------------------------- *)

\* No call is in flight: neither a caller's nor a put left behind by a get.
AllSettled == (\A p \in Procs : task[p].pc = "idle") /\ detached = <<>>

SeqNext ==
    \/ \E ok \in BOOLEAN : Connect(ok) /\ UNCHANGED seqVars
    \/ \E k \in Keys : \E v \in ValuesOf(k) :
          AllSettled /\ CallPut(Caller, k, v) /\ Touch("put", k, v) /\ UNCHANGED <<issued, sent, probe>>
    \/ \E k \in Keys :
          AllSettled /\ CallGet(Caller, k) /\ Touch("get", k, Undefined) /\ UNCHANGED <<issued, sent, probe>>
    \/ \E ok \in BOOLEAN : FallbackPutIO(Caller, ok) /\ UNCHANGED seqVars
    \/ PutResume(Caller) /\ UNCHANGED seqVars
    \/ \E ok \in BOOLEAN : FallbackGetIO(Caller, ok) /\ UNCHANGED seqVars
    \/ GetResume(Caller) /\ UNCHANGED seqVars
    \/ \E i \in 1 .. MaxDetached, ok \in BOOLEAN : DetachedPutIO(i, ok) /\ UNCHANGED seqVars
    \/ \E i \in 1 .. MaxDetached : DetachedPutResume(i) /\ UNCHANGED seqVars

\* LRUCache.put and get called one at a time: a call is made when every earlier call has
\* settled, the put that a get leaves running included.
SpecSeq == Init /\ [][SeqNext]_vars

\* One more call is issued.
Issue == issued < MaxCalls /\ issued' = issued + 1 /\ UNCHANGED obsVars

ConcNext ==
    \/ \E ok \in BOOLEAN : Connect(ok) /\ UNCHANGED seqVars
    \/ \E p \in Procs, k \in Keys : \E v \in ValuesOf(k) : CallPut(p, k, v) /\ Issue /\ UNCHANGED sent
    \/ \E p \in Procs, k \in Keys : CallGet(p, k) /\ Issue /\ UNCHANGED sent
    \/ \E p \in Procs, ok \in BOOLEAN : FallbackPutIO(p, ok) /\ UNCHANGED seqVars
    \/ \E p \in Procs : PutResume(p) /\ UNCHANGED seqVars
    \/ \E p \in Procs, ok \in BOOLEAN : FallbackGetIO(p, ok) /\ UNCHANGED seqVars
    \/ \E p \in Procs : GetResume(p) /\ UNCHANGED seqVars
    \/ \E i \in 1 .. MaxDetached, ok \in BOOLEAN : DetachedPutIO(i, ok) /\ UNCHANGED seqVars
    \/ \E i \in 1 .. MaxDetached : DetachedPutResume(i) /\ UNCHANGED seqVars

\* LRUCache.put and get called by several callers, in flight at once and interleaved at
\* their suspensions.
SpecConc == Init /\ [][ConcNext]_vars

\* What the collaborator's fetch may end with.
FetchOutcomes == {Ok(v) : v \in {"1", "2"}} \cup {Thrown("scrape failed"), Thrown("Unsupported fetch type")}

FetchNext ==
    \/ \E ok \in BOOLEAN : Connect(ok) /\ UNCHANGED seqVars
    \/ \E p \in Procs, k \in FetchKeys : CallFetch(p, k) /\ Issue /\ UNCHANGED sent
    \/ \E p \in Procs, ok \in BOOLEAN : FallbackGetIO(p, ok) /\ UNCHANGED seqVars
    \/ \E p \in Procs : GetResume(p) /\ UNCHANGED seqVars
    \/ \E p \in Procs, out \in FetchOutcomes : FetchSettle(p, out) /\ UNCHANGED seqVars
    \/ \E p \in Procs, ok \in BOOLEAN : FallbackPutIO(p, ok) /\ UNCHANGED seqVars
    \/ \E p \in Procs : PutResume(p) /\ UNCHANGED seqVars
    \/ \E i \in 1 .. MaxDetached, ok \in BOOLEAN : DetachedPutIO(i, ok) /\ UNCHANGED seqVars
    \/ \E i \in 1 .. MaxDetached : DetachedPutResume(i) /\ UNCHANGED seqVars

\* getFromCacheOrFetch called by several callers on one shared cache.
SpecFetch == Init /\ [][FetchNext]_vars

\* A call op(k, v) starts: the call made before it, and what the cache and the store are
\* like now.
NoCall == <<"none", NoKey, Undefined>>

AtCall(op, k, v) ==
    hist' = << IF hist = <<>> THEN NoCall ELSE <<hist[2].op, hist[2].key, hist[2].value>>,
               [op |-> op, key |-> k, value |-> v, state |-> state,
                hit |-> MapHas(cache, k), full |-> Len(cache) >= capacity] >>

LastNext ==
    \/ \E ok \in BOOLEAN : Connect(ok) /\ UNCHANGED seqVars
    \/ \E k \in Keys : \E v \in ValuesOf(k) :
          AllSettled /\ CallPut(Caller, k, v) /\ AtCall("put", k, v)
          /\ UNCHANGED <<recency, gotten, issued, sent, probe>>
    \/ \E k \in Keys :
          AllSettled /\ CallGet(Caller, k) /\ AtCall("get", k, Undefined)
          /\ UNCHANGED <<recency, gotten, issued, sent, probe>>
    \/ \E ok \in BOOLEAN : FallbackPutIO(Caller, ok) /\ UNCHANGED seqVars
    \/ PutResume(Caller) /\ UNCHANGED seqVars
    \/ \E ok \in BOOLEAN : FallbackGetIO(Caller, ok) /\ UNCHANGED seqVars
    \/ GetResume(Caller) /\ UNCHANGED seqVars
    \/ \E i \in 1 .. MaxDetached, ok \in BOOLEAN : DetachedPutIO(i, ok) /\ UNCHANGED seqVars
    \/ \E i \in 1 .. MaxDetached : DetachedPutResume(i) /\ UNCHANGED seqVars

\* LRUCache.put and get called one at a time, as in SpecSeq, observed by the last two calls.
SpecLast == Init /\ [][LastNext]_vars

\* A call op(k, v) starts, as in AtCall, with the value last put for each key in place of
\* the call before.
NeverPut == [k \in Keys |-> Undefined]

AtCallOfLatest(op, k, v) ==
    LET latest == IF hist = <<>> THEN NeverPut ELSE hist[1] IN
    hist' = << IF op = "put" THEN [latest EXCEPT ![k] = v] ELSE latest,
               [op |-> op, key |-> k, value |-> v, state |-> state,
                hit |-> MapHas(cache, k), full |-> Len(cache) >= capacity] >>

ConnectedNext ==
    \/ Connect(TRUE) /\ UNCHANGED seqVars
    \/ \E k \in Keys : \E v \in ValuesOf(k) :
          AllSettled /\ state = Connected /\ CallPut(Caller, k, v)
          /\ AtCallOfLatest("put", k, v)
          /\ UNCHANGED <<recency, gotten, issued, sent, probe>>
    \/ \E k \in Keys :
          AllSettled /\ state = Connected /\ CallGet(Caller, k)
          /\ AtCallOfLatest("get", k, Undefined)
          /\ UNCHANGED <<recency, gotten, issued, sent, probe>>
    \/ FallbackPutIO(Caller, TRUE) /\ UNCHANGED seqVars
    \/ PutResume(Caller) /\ UNCHANGED seqVars
    \/ FallbackGetIO(Caller, TRUE) /\ UNCHANGED seqVars
    \/ GetResume(Caller) /\ UNCHANGED seqVars
    \/ \E i \in 1 .. MaxDetached : DetachedPutIO(i, TRUE) /\ UNCHANGED seqVars
    \/ \E i \in 1 .. MaxDetached : DetachedPutResume(i) /\ UNCHANGED seqVars

\* LRUCache.put and get called one at a time on a store that is connected before the first
\* call and whose backend never fails.
SpecConnected == Init /\ [][ConnectedNext]_vars

\* The handler registered as where_ is called with params o and computes its cache key
\* (websocket.ts:47, twitter.ts:236); probe keeps the last two of these calls.
Keyed(where_, o) ==
    /\ probe' = (IF probe = <<>> THEN <<>> ELSE <<probe[Len(probe)]>>)
                 \o << [where_ |-> where_, params |-> o,
                        key |-> PollKey(where_, Stringify(o))] >>
    /\ UNCHANGED <<capacity, cache, state, docs, task, detached, ret, recency, gotten, hist,
                   issued, flight, sent>>

KeyNext == \E where_ \in Registered, o \in ParamObjects : Keyed(where_, o)

\* The cache keys of the handlers, computed for one request after another.
SpecKey == Init /\ [][KeyNext]_vars

\* What the collaborator behind a handler may end with when the handler is awaited by
\* handle (websocket.ts:210): a result, or an error of any kind, a timeout or a
\* cancellation reported by the collaborator included.
CollaboratorOutcomes ==
    {Ok("1")} \cup {Thrown(t) : t \in {"scrape failed", "Unsupported fetch type",
                                       "timeout", "canceled"}}

\* The handler registered as where_ settles with `out` and handle and respond build the
\* response (websocket.ts:173-175, 210-214); probe keeps the last two of these.
HandlerSettles(where_, out) ==
    /\ probe' = (IF probe = <<>> THEN <<>> ELSE <<probe[Len(probe)]>>)
                 \o << [where_ |-> where_, out |-> out,
                        resp |-> respondAfterHandler(where_, out)] >>
    /\ UNCHANGED <<capacity, cache, state, docs, task, detached, ret, recency, gotten, hist,
                   issued, flight, sent>>

SettleNext == \E where_ \in Registered, out \in CollaboratorOutcomes : HandlerSettles(where_, out)

\* The responses built for the handlers' outcomes, one request after another.
SpecSettle == Init /\ [][SettleNext]_vars

\* A call op(k, v) starts, as in AtCall, the call before it forgotten.
AtQuery(op, k, v) ==
    hist' = << NoCall,
               [op |-> op, key |-> k, value |-> v, state |-> state,
                hit |-> MapHas(cache, k), full |-> Len(cache) >= capacity] >>

QueriesNext ==
    \/ \E ok \in BOOLEAN :
          Connect(ok) /\ probe' = <<ok>> /\ UNCHANGED <<recency, gotten, hist, issued, sent>>
    \/ \E k \in Keys : \E v \in ValuesOf(k) :
          AllSettled /\ CallPut(Caller, k, v) /\ AtQuery("put", k, v)
          /\ UNCHANGED <<recency, gotten, issued, sent, probe>>
    \/ \E k \in Keys :
          AllSettled /\ CallGet(Caller, k) /\ AtQuery("get", k, Undefined)
          /\ UNCHANGED <<recency, gotten, issued, sent, probe>>
    \/ \E k \in Keys :
          AllSettled /\ CallHas(Caller, k) /\ AtQuery("has", k, Undefined)
          /\ UNCHANGED <<recency, gotten, issued, sent, probe>>
    \/ AllSettled /\ CallSize(Caller) /\ AtQuery("size", NoKey, Undefined)
          /\ UNCHANGED <<recency, gotten, issued, sent, probe>>
    \/ AllSettled /\ CallClear(Caller) /\ AtQuery("clear", NoKey, Undefined)
          /\ UNCHANGED <<recency, gotten, issued, sent, probe>>
    \/ \E ok \in BOOLEAN : FallbackPutIO(Caller, ok) /\ UNCHANGED seqVars
    \/ PutResume(Caller) /\ UNCHANGED seqVars
    \/ \E ok \in BOOLEAN : FallbackGetIO(Caller, ok) /\ UNCHANGED seqVars
    \/ GetResume(Caller) /\ UNCHANGED seqVars
    \/ \E i \in 1 .. MaxDetached, ok \in BOOLEAN : DetachedPutIO(i, ok) /\ UNCHANGED seqVars
    \/ \E i \in 1 .. MaxDetached : DetachedPutResume(i) /\ UNCHANGED seqVars

\* All the methods of LRUCache called one at a time, and connect called at any time, its
\* outcome kept in probe.
SpecQueries == Init /\ [][QueriesNext]_vars

\* The value of capacity while no LRUCache has been constructed.
NoInstance == 0 - 1

\* new LRUCache(n, fallbackClient) is evaluated while there is no instance.
New(n) ==
    /\ capacity = NoInstance
    /\ LET r == LRUCacheNew(n) IN
       IF r.threw
       THEN /\ ret' = [ret EXCEPT ![Caller] = ErrorRet]
            /\ UNCHANGED <<capacity, cache>>
       ELSE /\ capacity' = r.capacity
            /\ cache' = r.cache
            /\ ret' = [ret EXCEPT ![Caller] = Undefined]
    /\ hist' = << NoCall,
                  [op |-> "new", key |-> NoKey, value |-> Undefined, state |-> state,
                   hit |-> FALSE, full |-> FALSE, arg |-> n] >>
    /\ UNCHANGED <<state, docs, task, detached, flight, recency, gotten, issued, sent, probe>>

InitCtor ==
    /\ capacity = NoInstance
    /\ cache = <<>>
    /\ state = Disconnected
    /\ docs = {}
    /\ task = [p \in Procs |-> IdleTask]
    /\ detached = <<>>
    /\ ret = [p \in Procs |-> Undefined]
    /\ recency = <<>>
    /\ gotten = {}
    /\ hist = <<>>
    /\ issued = 0
    /\ flight = [k \in Keys |-> NoFlight]
    /\ sent = [env |-> NoEnvelope, how |-> "none", value |-> Undefined,
               resp |-> success(MsgText("")), sends |-> 0]
    /\ probe = <<>>

CtorNext ==
    \/ \E n \in (0 - MaxNeg) .. MaxCap : New(n)
    \/ \E ok \in BOOLEAN : Connect(ok) /\ UNCHANGED seqVars
    \/ \E k \in Keys : \E v \in ValuesOf(k) :
          capacity # NoInstance /\ AllSettled /\ CallPut(Caller, k, v) /\ AtCall("put", k, v)
          /\ UNCHANGED <<recency, gotten, issued, sent, probe>>
    \/ \E k \in Keys :
          capacity # NoInstance /\ AllSettled /\ CallGet(Caller, k)
          /\ AtCall("get", k, Undefined)
          /\ UNCHANGED <<recency, gotten, issued, sent, probe>>
    \/ \E ok \in BOOLEAN : FallbackPutIO(Caller, ok) /\ UNCHANGED seqVars
    \/ PutResume(Caller) /\ UNCHANGED seqVars
    \/ \E ok \in BOOLEAN : FallbackGetIO(Caller, ok) /\ UNCHANGED seqVars
    \/ GetResume(Caller) /\ UNCHANGED seqVars
    \/ \E i \in 1 .. MaxDetached, ok \in BOOLEAN : DetachedPutIO(i, ok) /\ UNCHANGED seqVars
    \/ \E i \in 1 .. MaxDetached : DetachedPutResume(i) /\ UNCHANGED seqVars

\* The program from before the construction of the cache: the constructor is tried until
\* it succeeds, then put and get are called one at a time.
SpecCtor == InitCtor /\ [][CtorNext]_vars

\* enum Outcome (websocket.ts:242-250)
Outcomes ==
    {"Failure", "NotAllowed", "Timeout", "Canceled", "InternalError", "NotFound",
     "RateLimited"}

ProbeMessages == {MsgText(t) : t \in {"", "a", "b"}} \cup {MsgResult("1")}
ProbeReasons == {NoReason, ReasonText("a"), ReasonText("b"), ReasonObject("e")}

\* WebSocketServer.error(outcome, message, reason) is called
MakeError(outcome, message, reason) ==
    /\ probe' = << [outcome |-> outcome, resp |-> error(outcome, message, reason)] >>
    /\ UNCHANGED <<capacity, cache, state, docs, task, detached, ret, recency, gotten, hist,
                   issued, flight, sent>>

\* WebSocketServer.success(message) is called
MakeSuccess(message) ==
    /\ probe' = << [outcome |-> "Success", resp |-> success(message)] >>
    /\ UNCHANGED <<capacity, cache, state, docs, task, detached, ret, recency, gotten, hist,
                   issued, flight, sent>>

StatusNext ==
    \/ \E o \in Outcomes, m \in ProbeMessages, r \in ProbeReasons : MakeError(o, m, r)
    \/ \E m \in ProbeMessages : MakeSuccess(m)

\* The two factories of ServerResponse, called with every outcome.
SpecStatus == Init /\ [][StatusNext]_vars

\* A call of getFromCacheOrFetch for key k starts: what the previous call for k did and
\* what the cache holds now.
AtStart(k) ==
    hist' = << [key |-> k, fetches |-> flight[k].fetches, results |-> flight[k].results,
                hit |-> MapHas(cache, k), size |-> Len(cache)] >>

FetchSeqNext ==
    \/ \E ok \in BOOLEAN : Connect(ok) /\ UNCHANGED seqVars
    \/ \E k \in FetchKeys :
          AllSettled /\ CallFetch(Caller, k) /\ AtStart(k)
          /\ UNCHANGED <<recency, gotten, issued, sent, probe>>
    \/ \E ok \in BOOLEAN : FallbackGetIO(Caller, ok) /\ UNCHANGED seqVars
    \/ GetResume(Caller) /\ UNCHANGED seqVars
    \/ \E out \in FetchOutcomes : FetchSettle(Caller, out) /\ UNCHANGED seqVars
    \/ \E ok \in BOOLEAN : FallbackPutIO(Caller, ok) /\ UNCHANGED seqVars
    \/ PutResume(Caller) /\ UNCHANGED seqVars
    \/ \E i \in 1 .. MaxDetached, ok \in BOOLEAN : DetachedPutIO(i, ok) /\ UNCHANGED seqVars
    \/ \E i \in 1 .. MaxDetached : DetachedPutResume(i) /\ UNCHANGED seqVars

\* getFromCacheOrFetch called one at a time on one cache: a call is made when every
\* earlier call has settled.
SpecFetchSeq == Init /\ [][FetchSeqNext]_vars

ServerNext ==
    \/ \E p \in Procs, m \in Messages : Receive(p, m) /\ issued < MaxMessages /\ Issue
    \/ \E p \in Procs : GetResume(p) /\ UNCHANGED seqVars
    \/ \E p \in Procs, out \in FetchOutcomes : FetchSettle(p, out) /\ UNCHANGED seqVars
    \/ \E p \in Procs : PutResume(p) /\ UNCHANGED seqVars
    \/ \E p \in Procs : Send(p) /\ UNCHANGED <<recency, gotten, hist, issued, probe>>

\* The server as main starts it (index.ts:53-69): the fallback store is constructed and
\* passed to WebSocketServer, and connect is not called.
SpecServer == Init /\ [][ServerNext]_vars

\* The requests that reach a handler's poll: one per registered handler.
PollRequests ==
    {Envelope("task", "flat", "aggregated_polling", TRUE, w, GoodParams) : w \in Registered}

\* Connection p has closed; probe lists the closed connections, each with the position of
\* its request at the moment of the close.
Closed(p) == \E i \in DOMAIN probe : probe[i].conn = p

Close_Cancels(p) ==
    /\ ~Closed(p)
    /\ probe' = Append(probe, [conn |-> p, pc |-> task[p].pc])
    /\ task' = [task EXCEPT ![p] = IdleTask]
    /\ UNCHANGED <<capacity, cache, state, docs, detached, ret, recency, gotten, hist,
                   issued, flight, sent>>

\* The client of connection p goes away: ws emits 'close' and handleClose logs it
\* (websocket.ts:108-110, 124-126). The request of p that is in flight is not touched.
Close(p) ==
    /\ ~Closed(p)
    /\ probe' = Append(probe, [conn |-> p, pc |-> task[p].pc])
    /\ UNCHANGED <<capacity, cache, state, docs, task, detached, ret, recency, gotten, hist,
                   issued, flight, sent>>

CloseNext ==
    \/ \E p \in Procs, m \in PollRequests :
          ~Closed(p) /\ Receive(p, m) /\ issued < MaxMessages
          /\ issued' = issued + 1 /\ UNCHANGED obsVars
    \/ \E p \in Procs : Close(p)
    \/ \E p \in Procs : GetResume(p) /\ UNCHANGED seqVars
    \/ \E p \in Procs, out \in FetchOutcomes : FetchSettle(p, out) /\ UNCHANGED seqVars
    \/ \E p \in Procs : PutResume(p) /\ UNCHANGED seqVars
    \/ \E p \in Procs : Send(p) /\ UNCHANGED <<recency, gotten, hist, issued, probe>>

\* The server as in SpecServer, with connections that close at any moment; a closed
\* connection receives no further message.
SpecClose == Init /\ [][CloseNext]_vars

LiveNext ==
    \/ \E p \in Procs, m \in PollRequests \cup {Malformed} :
          Receive(p, m) /\ issued < MaxMessages /\ issued' = issued + 1 /\ UNCHANGED obsVars
    \/ \E ok \in BOOLEAN : Connect(ok) /\ UNCHANGED seqVars
    \/ \E p \in Procs, ok \in BOOLEAN : FallbackGetIO(p, ok) /\ UNCHANGED seqVars
    \/ \E p \in Procs : GetResume(p) /\ UNCHANGED seqVars
    \/ \E p \in Procs, out \in FetchOutcomes : FetchSettle(p, out) /\ UNCHANGED seqVars
    \/ \E p \in Procs, ok \in BOOLEAN : FallbackPutIO(p, ok) /\ UNCHANGED seqVars
    \/ \E p \in Procs : PutResume(p) /\ UNCHANGED seqVars
    \/ \E i \in 1 .. MaxDetached, ok \in BOOLEAN : DetachedPutIO(i, ok) /\ UNCHANGED seqVars
    \/ \E i \in 1 .. MaxDetached : DetachedPutResume(i) /\ UNCHANGED seqVars
    \/ \E p \in Procs : Send(p) /\ UNCHANGED <<recency, gotten, hist, issued, probe>>

\* Every continuation that is ready runs (the event loop runs each settled promise's
\* continuation), and every collaborator fetch and fallback-store call settles.
LiveFairness ==
    /\ \A p \in Procs :
          /\ WF_vars(\E ok \in BOOLEAN : FallbackGetIO(p, ok) /\ UNCHANGED seqVars)
          /\ WF_vars(GetResume(p) /\ UNCHANGED seqVars)
          /\ WF_vars(\E out \in FetchOutcomes : FetchSettle(p, out) /\ UNCHANGED seqVars)
          /\ WF_vars(\E ok \in BOOLEAN : FallbackPutIO(p, ok) /\ UNCHANGED seqVars)
          /\ WF_vars(PutResume(p) /\ UNCHANGED seqVars)
          /\ WF_vars(Send(p) /\ UNCHANGED <<recency, gotten, hist, issued, probe>>)
    /\ \A i \in 1 .. MaxDetached :
          /\ WF_vars(\E ok \in BOOLEAN : DetachedPutIO(i, ok) /\ UNCHANGED seqVars)
          /\ WF_vars(DetachedPutResume(i) /\ UNCHANGED seqVars)

\* The server with a fallback store that may be connected, under fair scheduling.
SpecLive == Init /\ [][LiveNext]_vars /\ LiveFairness

\* A get of key k is suspended on the fallback store (cache.ts:31).
GetSuspended(k) ==
    \E q \in Procs : task[q].kind = "get" /\ task[q].key = k
                     /\ task[q].pc \in {"get_io", "get_wait"}

\* For each key, the value of the last put of it that returned while a get of the key was
\* suspended on the fallback store; undefined when there is none.
PutMeanwhile == IF hist = <<>> THEN NeverPut ELSE hist[1]

\* put(k, v) has returned.
PutReturned(k, v) ==
    hist' = << IF GetSuspended(k) THEN [PutMeanwhile EXCEPT ![k] = v] ELSE PutMeanwhile >>

RefillNext ==
    \/ \E ok \in BOOLEAN : Connect(ok) /\ UNCHANGED seqVars
    \/ \E p \in Procs, k \in Keys : \E v \in ValuesOf(k) :
          /\ CallPut(p, k, v)
          /\ issued < MaxCalls /\ issued' = issued + 1
          /\ IF task'[p].pc = "idle" THEN PutReturned(k, v) ELSE hist' = <<PutMeanwhile>>
          /\ UNCHANGED <<recency, gotten, sent, probe>>
    \/ \E p \in Procs, k \in Keys :
          /\ CallGet(p, k)
          /\ issued < MaxCalls /\ issued' = issued + 1
          /\ hist' = << IF GetSuspended(k) THEN PutMeanwhile
                        ELSE [PutMeanwhile EXCEPT ![k] = Undefined] >>
          /\ UNCHANGED <<recency, gotten, sent, probe>>
    \/ \E p \in Procs, ok \in BOOLEAN : FallbackPutIO(p, ok) /\ UNCHANGED seqVars
    \/ \E p \in Procs :
          /\ PutResume(p)
          /\ PutReturned(task[p].key, task[p].value)
          /\ UNCHANGED <<recency, gotten, issued, sent, probe>>
    \/ \E p \in Procs, ok \in BOOLEAN : FallbackGetIO(p, ok) /\ UNCHANGED seqVars
    \/ \E p \in Procs : GetResume(p) /\ UNCHANGED seqVars
    \/ \E i \in 1 .. MaxDetached, ok \in BOOLEAN : DetachedPutIO(i, ok) /\ UNCHANGED seqVars
    \/ \E i \in 1 .. MaxDetached : DetachedPutResume(i) /\ UNCHANGED seqVars

\* LRUCache.put and get called by several callers, as in SpecConc, observed by the puts
\* that return while a get of the same key is suspended.
SpecRefill == Init /\ [][RefillNext]_vars

FreshNext ==
    \/ \E ok \in BOOLEAN : Connect(ok) /\ UNCHANGED seqVars
    \/ \E k \in Keys : \E v \in ValuesOf(k) :
          AllSettled /\ CallPut(Caller, k, v) /\ AtCallOfLatest("put", k, v)
          /\ UNCHANGED <<recency, gotten, issued, sent, probe>>
    \/ \E k \in Keys :
          AllSettled /\ CallGet(Caller, k) /\ AtCallOfLatest("get", k, Undefined)
          /\ UNCHANGED <<recency, gotten, issued, sent, probe>>
    \/ AllSettled /\ CallClear(Caller) /\ AtCallOfLatest("clear", NoKey, Undefined)
          /\ UNCHANGED <<recency, gotten, issued, sent, probe>>
    \/ \E ok \in BOOLEAN : FallbackPutIO(Caller, ok) /\ UNCHANGED seqVars
    \/ PutResume(Caller) /\ UNCHANGED seqVars
    \/ \E ok \in BOOLEAN : FallbackGetIO(Caller, ok) /\ UNCHANGED seqVars
    \/ GetResume(Caller) /\ UNCHANGED seqVars
    \/ \E i \in 1 .. MaxDetached, ok \in BOOLEAN : DetachedPutIO(i, ok) /\ UNCHANGED seqVars
    \/ \E i \in 1 .. MaxDetached : DetachedPutResume(i) /\ UNCHANGED seqVars

\* LRUCache.put, get and clear called one at a time, on a store that connects and
\* disconnects and whose backend may fail, observed by the value last put for each key.
SpecFresh == Init /\ [][FreshNext]_vars

(* ------------------------- LRUCache: properties ------------------------ *)

\* Position of key k in the order of the most recent touches.
Pos(r, k) == CHOOSE i \in 1 .. Len(r) : r[i] = k

\* The key of ks whose most recent put or get is the oldest.
LeastRecentlyTouched(ks, r) == CHOOSE k \in ks : \A j \in ks : Pos(r, k) <= Pos(r, j)

\* A step in which an evicting put resumes: the caller's own, or the one a get left running.
\* EvictingKey is the key that put inserts.
EvictStep ==
    \/ task[Caller].pc = "put_wait" /\ task'[Caller].pc = "idle"
    \/ Len(detached) = 1 /\ detached[1].pc = "put_wait" /\ detached' = <<>>

EvictingKey == IF detached = <<>> THEN task[Caller].key ELSE detached[1].key

\* C1: with the calls made one at a time, size() <= capacity after each of them, whatever
\* the state of the fallback store.
C1_SizeAfterEachPut == task[Caller].pc = "idle" => Len(cache) <= capacity

\* C1 witness: the cache is full after puts that evicted with the store Connected (a
\* document was written) and the store is Disconnected now.
C1_Witness ==
    /\ AllSettled
    /\ Len(cache) = capacity
    /\ docs # {}
    /\ state = Disconnected

\* C2: size() <= capacity in every reachable state, also with calls in flight at once.
C2_SizeAtAllTimes == Len(cache) <= capacity

\* C5: a put of an absent key into a full cache removes exactly the key whose most recent
\* put or get is the oldest, and keeps every other key.
C5_EvictsLeastRecentlyTouched ==
    [][EvictStep =>
          /\ Cardinality(MapKeys(cache)) = capacity
          /\ MapKeys(cache') =
                (MapKeys(cache) \ {LeastRecentlyTouched(MapKeys(cache), recency)})
                    \cup {EvictingKey}]_vars

\* C5 witness: capacity + 1 distinct keys were put into a cache of capacity > 1, so one was
\* evicted and written to the store.
C5_Witness ==
    /\ AllSettled
    /\ capacity > 1
    /\ Len(cache) = capacity
    /\ \E x \in docs : ~MapHas(cache, x.key)

\* C6: a get that hits moves its key to the most-recently-used position; an eviction never
\* removes a key whose last touch was such a get while a key touched less recently is in
\* memory; and put(a,1), put(b,2), get(a), put(c,3) at capacity 2 leaves exactly {a:1, c:3}.
C6_GetPromotes ==
    [][/\ (recency' # recency /\ recency'[Len(recency')] \in gotten')
            => cache'[Len(cache')].key = recency'[Len(recency')]
       /\ EvictStep =>
            \A k \in gotten \cap MapKeys(cache) :
                (\E j \in MapKeys(cache) : Pos(recency, j) < Pos(recency, k))
                    => MapHas(cache', k)
       /\ (hist' = Scenario /\ AllSettled' /\ capacity = 2)
            => cache' = <<[key |-> "a", value |-> "1"], [key |-> "c", value |-> "3"]>>]_vars

\* C6 witness: the scenario has run to its end at capacity 2.
C6_Witness == hist = Scenario /\ AllSettled /\ capacity = 2

\* The newest call has returned to the caller.
Returned == hist # <<>> /\ task[Caller].pc = "idle"

\* C18: put(k, v) followed immediately by get(k) returns v, whatever the cache held before
\* and whatever the fallback store does.
C18_PutThenGet ==
    (/\ Returned
     /\ hist[1][1] = "put"
     /\ hist[2].op = "get"
     /\ hist[2].key = hist[1][2])
    => ret[Caller] = hist[1][3]

C18_Witness ==
    /\ Returned
    /\ hist[1] = <<"put", "c", "3">>
    /\ hist[2].op = "get"
    /\ hist[2].key = "c"
    /\ ret[Caller] = "3"
    /\ Len(cache) = capacity
    /\ docs # {}

\* The newest call started while the fallback store was Disconnected, and it is a get of
\* a key that was not in memory or a put that has to evict.
DisconnectedCase(h) ==
    /\ h # <<>>
    /\ h[2].state = Disconnected
    /\ ~h[2].hit
    /\ h[2].op = "get" \/ h[2].full

\* C19: with the fallback store Disconnected, a get of a key absent from memory returns
\* undefined, a put that evicts completes, neither raises, and the documents of the store
\* are unchanged from the start of the call to its return.
C19_DisconnectedIsQuiet ==
    [][((hist' # hist \/ task[Caller].pc # "idle") /\ DisconnectedCase(hist')) =>
          /\ docs' = docs
          /\ task'[Caller].pc \in {"get_wait", "put_wait", "idle"}
          /\ task'[Caller].pc = "idle" =>
                /\ ret'[Caller] = Undefined
                /\ hist'[2].op = "put" => MapHas(cache', hist'[2].key)
                /\ hist'[2].op = "get" => cache' = cache]_vars

C19_Witness ==
    /\ Returned
    /\ DisconnectedCase(hist)
    /\ hist[2].op = "put"
    /\ docs # {}
    /\ ret[Caller] = Undefined
    /\ MapHas(cache, hist[2].key)

\* C20: when get(k) misses in memory and the fallback store holds a document for k, then
\* once get has returned the value, k is in memory as the most recently used entry.
C20_RefillBeforeReturn ==
    (/\ Returned
     /\ hist[2].op = "get"
     /\ ~hist[2].hit
     /\ ret[Caller] # Undefined)
    => /\ MapHas(cache, hist[2].key)
       /\ cache[Len(cache)].key = hist[2].key

\* The newest call is a get of a key that was put before and is no longer in memory, and
\* it has returned.
GetOfEvicted ==
    /\ Returned
    /\ hist[2].op = "get"
    /\ ~hist[2].hit
    /\ hist[1][hist[2].key] # Undefined

\* C21: with the store Connected and its backend working, a key evicted from memory with
\* value v is read back from the store: a later get of it returns v, the value last put.
C21_EvictedStaysRetrievable ==
    GetOfEvicted => ret[Caller] = hist[1][hist[2].key]

C21_Witness ==
    /\ GetOfEvicted
    /\ ret[Caller] \in Values
    /\ ret[Caller] = hist[1][hist[2].key]
    /\ \E x \in docs : x.key = hist[2].key /\ x.value = ret[Caller]

\* C22: put(k, v) on a key in memory returns without suspending, with k the newest entry
\* and v its value, the other entries as they were, the size unchanged and nothing written
\* to the store, also when the cache is full.
C22_OverwriteInPlace ==
    [][(hist' # hist /\ hist'[2].op = "put" /\ hist'[2].hit) =>
          /\ task'[Caller].pc = "idle"
          /\ cache'[Len(cache')] = [key |-> hist'[2].key, value |-> hist'[2].value]
          /\ MapDelete(cache', hist'[2].key) = MapDelete(cache, hist'[2].key)
          /\ Len(cache') = Len(cache)
          /\ docs' = docs
          /\ detached' = detached]_vars

C22_Witness ==
    /\ Returned
    /\ hist[2].op = "put"
    /\ hist[2].hit
    /\ hist[2].full
    /\ capacity > 1
    /\ hist[1][1] = "put"
    /\ hist[1][2] # hist[2].key
    /\ cache[Len(cache)] = [key |-> hist[2].key, value |-> hist[2].value]
    /\ state = Connected

\* C23: the engine is one critical section: while a put or a get is between its steps
\* (suspended on the fallback store, the put that a get left running included), no other
\* put or get on the same cache starts running.
C23_EngineIsSerialized ==
    [][((\E p \in Procs : task[p].pc # "idle") \/ detached # <<>>) => issued' = issued]_vars

\* C26: the fallback store never raises. When its backend fails, get resumes with null
\* and put resumes with the documents unchanged; a call made while the store is not
\* Connected goes through no backend I/O; and no get or put of the cache ends with an error.
C26_StoreErrorsStayInside ==
    [][/\ FallbackGetIO(Caller, FALSE) =>
             (task'[Caller].pc = "get_wait" /\ task'[Caller].fallbackValue = Null)
       /\ FallbackPutIO(Caller, FALSE) =>
             (task'[Caller].pc = "put_wait" /\ docs' = docs)
       /\ (hist' # hist /\ hist'[2].state # Connected) =>
             task'[Caller].pc \notin {"get_io", "put_io"}
       /\ (task[Caller].pc # "idle" /\ task'[Caller].pc = "idle") =>
             ret'[Caller] # ErrorRet]_vars

\* A get that started Connected returned undefined for a key whose document is in the
\* store: the backend failed the read.
C26_Witness ==
    /\ Returned
    /\ hist[2].op = "get"
    /\ ~hist[2].hit
    /\ hist[2].state = Connected
    /\ \E x \in docs : x.key = hist[2].key
    /\ ret[Caller] = Undefined

\* C28: the store holds at most one document per key; a successful write for a key leaves
\* that key's document with the value written, and the documents of the other keys as
\* they were.
C28_OneDocumentPerKey ==
    [][/\ \A x, y \in docs' : x.key = y.key => x = y
       /\ \A p \in Procs :
             FallbackPutIO(p, TRUE) =>
                 /\ [key |-> task[p].lruKey, value |-> task[p].lruValue] \in docs'
                 /\ \A x \in docs : x.key # task[p].lruKey => x \in docs'
       /\ \A i \in 1 .. Len(detached) :
             DetachedPutIO(i, TRUE) =>
                 /\ [key |-> detached[i].lruKey, value |-> detached[i].lruValue] \in docs'
                 /\ \A x \in docs : x.key # detached[i].lruKey => x \in docs'
       /\ docs' # docs =>
             \/ \E p \in Procs : FallbackPutIO(p, TRUE)
             \/ \E i \in 1 .. Len(detached) : DetachedPutIO(i, TRUE)]_vars

\* A write has succeeded: the store holds value "2" for key "a" while the caller that
\* wrote it is still in its put, and another key has a document too.
C28_Witness ==
    /\ \E p \in Procs :
          /\ task[p].pc = "put_wait"
          /\ task[p].lruKey = "a"
          /\ task[p].lruValue = "2"
          /\ MapHas(cache, "a")
    /\ [key |-> "a", value |-> "2"] \in docs
    /\ Cardinality(docs) = 2

\* C27: after connect() has returned, state is Connected if the underlying connection
\* succeeded and Disconnected if it failed, whatever the state was before.
C27_ConnectSetsState ==
    probe # <<>> => state = (IF probe[1] THEN Connected ELSE Disconnected)

C27_Witness ==
    /\ probe = <<FALSE>>
    /\ state = Disconnected
    /\ docs # {}

\* C29: has, size and clear return without suspending and leave the store's documents
\* and state unchanged; has and size return the membership and the number of entries and
\* leave the Map as it is, and clear empties the Map.
C29_QueriesAreLocal ==
    [][(hist' # hist /\ hist'[2].op \in {"has", "size", "clear"}) =>
          /\ docs' = docs
          /\ state' = state
          /\ task' = task
          /\ detached' = detached
          /\ hist'[2].op = "has" =>
                (cache' = cache /\ ret'[Caller] = MapHas(cache, hist'[2].key))
          /\ hist'[2].op = "size" => (cache' = cache /\ ret'[Caller] = Len(cache))
          /\ hist'[2].op = "clear" => cache' = <<>>]_vars

C29_Witness ==
    /\ Returned
    /\ hist[2].op = "has"
    /\ ret[Caller] = TRUE
    /\ cache[1].key = hist[2].key
    /\ capacity > 1
    /\ Len(cache) = capacity
    /\ docs # {}
    /\ state = Connected

\* C30: constructing an LRUCache with capacity <= 0 throws and leaves no instance;
\* constructing it with capacity >= 1 gives an empty cache of that capacity.
C30_ConstructorChecksCapacity ==
    (hist # <<>> /\ hist[2].op = "new") =>
        IF hist[2].arg <= 0
        THEN capacity = NoInstance /\ ret[Caller] = ErrorRet
        ELSE capacity = hist[2].arg /\ cache = <<>> /\ Len(cache) = 0
             /\ ret[Caller] = Undefined

C30_Witness ==
    /\ hist # <<>>
    /\ hist[2].op = "new"
    /\ hist[2].arg = MaxCap
    /\ capacity = MaxCap
    /\ ret[Caller] = Undefined
    /\ state = Connected

C30_WitnessRejected ==
    /\ hist # <<>>
    /\ hist[2].op = "new"
    /\ hist[2].arg = 0
    /\ capacity = NoInstance
    /\ ret[Caller] = ErrorRet

\* The newest call is a put that evicts, and the victim's value did not reach the store:
\* the store was Disconnected when the put started, or the backend failed the write.
EvictionNotPersisted ==
    /\ hist # <<>>
    /\ hist[2].op = "put"
    /\ ~hist[2].hit
    /\ hist[2].full
    /\ \/ hist[2].state = Disconnected
       \/ [key |-> task[Caller].lruKey, value |-> task[Caller].lruValue] \notin docs

\* C31: a put that evicts while the store is Disconnected, or whose fallback write fails,
\* still removes the victim from memory, inserts the new key as the newest entry and
\* returns normally.
C31_EvictionSurvivesFailedWrite ==
    [][/\ (task[Caller].pc = "put_io" /\ task'[Caller].pc # "put_io" /\ docs' = docs) =>
             task'[Caller].pc = "put_wait"
       /\ (EvictionNotPersisted /\ task[Caller].pc = "put_wait"
           /\ task'[Caller].pc # "put_wait") =>
             /\ task'[Caller].pc = "idle"
             /\ ret'[Caller] = Undefined
             /\ ~MapHas(cache', task[Caller].lruKey)
             /\ cache'[Len(cache')] = [key |-> hist[2].key, value |-> hist[2].value]
             /\ MapDelete(cache', hist[2].key) = MapDelete(cache, task[Caller].lruKey)]_vars

\* A put that started Connected on a full cache of two entries has returned, and the store
\* holds no document: the backend failed the write of the victim.
C31_Witness ==
    /\ Returned
    /\ hist[2].op = "put"
    /\ ~hist[2].hit
    /\ hist[2].full
    /\ hist[2].state = Connected
    /\ docs = {}
    /\ capacity > 1
    /\ Len(cache) = capacity
    /\ cache[Len(cache)] = [key |-> hist[2].key, value |-> hist[2].value]
    /\ ret[Caller] = Undefined

\* C36: a get(k) that missed in memory and resumes from the fallback read does not
\* overwrite the value that a put(k, v2) stored while the get was suspended: memory holds
\* v2 for k before the get resumes and still holds v2 when the get has returned.
C36_RefillKeepsNewerPut ==
    [][\A p \in Procs :
          (/\ task[p].kind = "get"
           /\ task[p].pc = "get_wait"
           /\ task'[p].pc = "idle"
           /\ PutMeanwhile[task[p].key] # Undefined
           /\ MapHas(cache, task[p].key)
           /\ MapGet(cache, task[p].key) = PutMeanwhile[task[p].key])
          => /\ MapHas(cache', task[p].key)
             /\ MapGet(cache', task[p].key) = PutMeanwhile[task[p].key]]_vars

\* C37: when a put resumes from its awaited fallback write and deletes its victim, the
\* victim is in memory and is the least recently used entry at that moment, whatever calls
\* ran while the put was suspended.
C37_VictimIsLruWhenDeleted ==
    [][\A p \in Procs :
          (task[p].pc = "put_wait" /\ task'[p].pc # "put_wait")
          => /\ MapHas(cache, task[p].lruKey)
             /\ task[p].lruKey = LruKey(cache)]_vars

\* C38: in any sequence of put, get and clear calls made one at a time, with fallback
\* writes that may fail, get(k) returns undefined or the value of the most recent put of k.
C38_GetIsFresh ==
    (Returned /\ hist[2].op = "get") =>
        ret[Caller] \in {Undefined, hist[1][hist[2].key]}

(* --------------------- getFromCacheOrFetch: properties ------------------ *)

\* C3: when two or more calls of getFromCacheOrFetch for the same uncached key are started
\* before the first of them completes, fetchFn is not invoked more than once by them.
C3_FetchInvokedOnce ==
    \A k \in Keys :
        (flight[k].uncached /\ flight[k].size >= 2) => flight[k].fetches <= 1

\* C4: the calls of getFromCacheOrFetch for the same uncached key that overlap the first
\* of them all return the same value, or all fail.
C4_SameResultForAll ==
    \A k \in Keys :
        (flight[k].uncached /\ flight[k].size >= 2) => Cardinality(flight[k].results) <= 1

\* The call in flight called fetchFn and fetchFn throws.
FetchFails == \E out \in FetchOutcomes : ~out.ok /\ FetchSettle(Caller, out)

\* C16: when fetchFn of a getFromCacheOrFetch(key, ...) fails, the call fails, the cache
\* holds no entry for key and has the size it had when the call started, and fetchFn was
\* invoked once.
C16_FetchFailureNotCached ==
    [][FetchFails =>
          /\ task'[Caller].pc = "idle"
          /\ ret'[Caller] = ErrorRet
          /\ ~MapHas(cache', hist[1].key)
          /\ Len(cache') = hist[1].size
          /\ docs' = docs
          /\ flight'[hist[1].key].fetches = 1]_vars

C16_Witness ==
    /\ AllSettled
    /\ hist # <<>>
    /\ ret[Caller] = ErrorRet
    /\ flight[hist[1].key].fetches = 1
    /\ flight[hist[1].key].results = {ErrorRet}
    /\ cache # <<>>
    /\ ~MapHas(cache, hist[1].key)

\* The newest call for its key has returned; the call before it for the same key missed,
\* invoked fetchFn once and stored the result, and the key was still in memory when the
\* newest call started.
SecondOfTwo ==
    /\ AllSettled
    /\ hist # <<>>
    /\ hist[1].hit
    /\ hist[1].fetches = 1
    /\ hist[1].results \subseteq Values

\* C17: of two sequential getFromCacheOrFetch calls for a key, where the first misses and
\* populates the cache and the key is not evicted in between, the second does not invoke
\* fetchFn (one invocation in total) and returns the value the first one stored.
C17_SecondCallHits ==
    SecondOfTwo =>
        /\ hist[1].fetches + flight[hist[1].key].fetches = 1
        /\ flight[hist[1].key].results = hist[1].results
        /\ ret[Caller] \in hist[1].results

C17_Witness ==
    /\ SecondOfTwo
    /\ capacity > 1
    /\ Len(cache) = capacity
    /\ cache[Len(cache)].key = hist[1].key
    /\ ret[Caller] \in Values

\* The members of a params object, whatever their order.
AsObject(o) == {o[i] : i \in DOMAIN o}

\* C24: two requests have the same cache key exactly when they are for the same operation
\* with logically identical params (the same members, in any order).
C24_KeyIsCanonical ==
    Len(probe) = 2 =>
        ((probe[1].where_ = probe[2].where_
             /\ AsObject(probe[1].params) = AsObject(probe[2].params))
         <=> probe[1].key = probe[2].key)

(* -------------------------- the server: properties ---------------------- *)

\* The status code the specification gives for each outcome.
StatusOf(outcome) ==
    CASE outcome = "Success" -> 200
      [] outcome = "Failure" -> 400
      [] outcome = "NotAllowed" -> 500
      [] outcome = "Timeout" -> 408
      [] outcome = "Canceled" -> 499
      [] outcome = "InternalError" -> 503
      [] outcome = "NotFound" -> 404
      [] outcome = "RateLimited" -> 429

\* C25: WebSocketServer.error returns, for each member of Outcome, the status code of the
\* mapping Failure=400, NotAllowed=500, Timeout=408, Canceled=499, InternalError=503,
\* NotFound=404, RateLimited=429, and WebSocketServer.success returns 200.
C25_OutcomeToStatus ==
    probe # <<>> => probe[1].resp.status = StatusOf(probe[1].outcome)

C25_Witness ==
    /\ probe # <<>>
    /\ probe[1].outcome = "RateLimited"
    /\ probe[1].resp.status = 429
    /\ probe[1].resp.reason = ReasonObject("e")

\* The last response sent answers a task envelope that names aggregated_polling.
SentForPolling ==
    /\ sent.env.json = "object"
    /\ sent.env.target = "task"
    /\ sent.env.args # Absent
    /\ sent.env.function = "aggregated_polling"

\* C7: for a task envelope that names aggregated_polling, if look_for.where_ is absent or
\* empty, params is absent, or where_ names no registered handler, the response sent has
\* status 400.
C7_BadPollingRequestIs400 ==
    (/\ SentForPolling
     /\ \/ ~sent.env.look_for
        \/ sent.env.where_ \in {Absent, ""}
        \/ sent.env.params = Absent
        \/ sent.env.where_ \notin Registered)
    => sent.resp.status = REQUEST_FAILED

\* C8: when the fetch of the handler a request resolved to fails, the response sent for
\* the request has status 400.
C8_FetchFailureIs400 ==
    sent.how = "failed" => sent.resp.status = REQUEST_FAILED

\* The messages of the errors a collaborator's fetch may throw.
FetchErrorMessages == {out.message : out \in {o \in FetchOutcomes : ~o.ok}}

\* C32: when the fetch of a handler fails with error e, the response built for the failure
\* carries the message text of e as its reason, for each of the three handlers.
C32_ReasonIsErrorMessage ==
    sent.how = "failed" =>
        /\ sent.resp.message.reason.kind = "string"
        /\ sent.resp.message.reason.of \in FetchErrorMessages

\* C33: when the collaborator reports a timeout the response has status 408, and when it
\* reports a cancellation the response has status 499, either as the response sent or as
\* the response it wraps.
C33_TimeoutAndCancelAreMapped ==
    \A i \in DOMAIN probe :
        /\ probe[i].out.message = "timeout" =>
              REQUEST_TIMEOUT \in {probe[i].resp.status, probe[i].resp.message.status}
        /\ probe[i].out.message = "canceled" =>
              REQUEST_CANCELED \in {probe[i].resp.status, probe[i].resp.message.status}

\* C34: the request of a connection that closed is not canceled: it goes on until its
\* response is handed to ws.send; when its fetch succeeds the result is in the shared
\* cache once the handler has returned, and a request for a key that is in the cache,
\* from any connection, is answered from the cache without a fetch.
C34_CloseDoesNotCancel ==
    [][/\ \A p \in Procs :
             /\ (Closed(p) /\ task[p].pc \notin {"idle", "send"}) =>
                   task'[p].pc # "idle"
             /\ (probe' # probe /\ ~Closed(p) /\ Closed(p)') => task'[p] = task[p]
             /\ (Closed(p) /\ task[p].pc # "send" /\ task'[p].pc = "send"
                 /\ task'[p].how = "fetched") =>
                   /\ MapHas(cache', task[p].key)
                   /\ MapGet(cache', task[p].key) = task'[p].value
       /\ \A q \in Procs :
             (task[q].pc = "idle" /\ task'[q].pc # "idle" /\ MapHas(cache, task'[q].key)) =>
                   /\ task'[q].pc = "send"
                   /\ task'[q].how = "cached"
                   /\ task'[q].value = MapGet(cache, task'[q].key)
                   /\ task'[q].resp = success(success(MsgResult(task'[q].value)))]_vars

\* Connection 1 closed while its fetch was in flight; the fetch succeeded and its response
\* waits for ws.send, and the other connection's request for the same key was answered
\* from the cache with the fetched value.
C34_Witness ==
    /\ probe # <<>>
    /\ probe[1] = [conn |-> Caller, pc |-> "fetching"]
    /\ task[Caller].pc = "send"
    /\ task[Caller].how = "fetched"
    /\ \E q \in Procs \ {Caller} :
          /\ ~Closed(q)
          /\ task[q].pc = "send"
          /\ task[q].how = "cached"
          /\ task[q].key = task[Caller].key
          /\ task[q].value = task[Caller].value

\* C35: under fair scheduling, with every fetch and every fallback-store call settling,
\* every message received is eventually answered: its request reaches the end of
\* handleMessage, where the response is handed to ws.send, also when earlier fetches for
\* the same key failed.
C35_EveryMessageIsAnswered ==
    \A p \in Procs : (task[p].pc # "idle") ~> (task[p].pc = "idle" /\ sent.sends > 0)

\* A response for a failed fetch has been sent, and a request for the same key, whose
\* fetch succeeded, is about to be answered.
C35_Witness ==
    /\ sent.how = "failed"
    /\ issued = MaxMessages
    /\ \E p \in Procs :
          /\ task[p].pc = "send"
          /\ task[p].how = "fetched"
          /\ task[p].env = sent.env

\* C39: in the server that main starts the fallback store is Disconnected in every
\* reachable state: no document is ever written, no request waits on the store's backend,
\* and every miss in memory is answered not-found by the store.
C39_ServerStoreStaysDisconnected ==
    /\ state = Disconnected
    /\ docs = {}
    /\ detached = <<>>
    /\ \A p \in Procs :
          /\ task[p].pc \notin {"get_io", "put_io"}
          /\ task[p].fallbackValue = Null

\* A request missed in memory, fetched its result and evicted an entry to store it; the
\* victim is gone from memory and the store holds nothing.
C39_Witness ==
    /\ state = Disconnected
    /\ docs = {}
    /\ \E p \in Procs :
          /\ task[p].pc = "send"
          /\ task[p].how = "fetched"
          /\ task[p].lruKey # NoKey
          /\ ~MapHas(cache, task[p].lruKey)
          /\ MapHas(cache, task[p].key)

\* C9: when the handler succeeds with result r, the response sent has status 200 and its
\* message is r itself, not a response that holds r.
C9_ResultWrappedOnce ==
    sent.how \in {"cached", "fetched"} =>
        /\ sent.resp.status = REQUEST_SUCCUESS
        /\ sent.resp.message = MsgResult(sent.value)

\* C10: every envelope that is valid JSON and whose target is not "task" is answered with
\* status 500 (NotAllowed).
C10_OtherTargetIs500 ==
    (sent.env.json = "object" /\ sent.env.target # "task") => sent.resp.status = NOT_ALLOWED

\* Message m is received in this step: its response is sent in the same step, or the
\* handler is invoked for it on some connection.
Received(m) ==
    /\ issued' = issued + 1
    /\ IF task' = task
       THEN sent'.env = m
       ELSE \E p \in Procs : task'[p] # task[p] /\ task'[p].env = m

\* C11: an envelope with target "database" is answered with status 500 (NotAllowed), no
\* handler is invoked for it and the cache is not touched.
C11_DatabaseIsNotAllowed ==
    [][\A m \in Messages :
          (Received(m) /\ m.json = "object" /\ m.target = "database") =>
              /\ sent'.env = m
              /\ sent'.resp.status = NOT_ALLOWED
              /\ UNCHANGED <<cache, docs, task, detached>>]_vars

C11_Witness ==
    /\ sent.env.json = "object"
    /\ sent.env.target = "database"
    /\ sent.resp.status = NOT_ALLOWED
    /\ cache # <<>>

\* C12: a message in the documented shape (target task, the task arguments under
\* args.for_task, function aggregated_polling, a registered where_ and non-empty params)
\* is not answered NotAllowed.
C12_NestedShapeReachesHandler ==
    (/\ sent.env.json = "object"
     /\ sent.env.target = "task"
     /\ sent.env.args = "nested"
     /\ sent.env.function = "aggregated_polling"
     /\ sent.env.where_ \in Registered
     /\ sent.env.params = GoodParams)
    => sent.resp.status # NOT_ALLOWED

\* C13: for a decoded envelope with target task whose function is absent or is not
\* aggregated_polling, the response has status 500 (NotAllowed) and no handler is invoked.
C13_OtherFunctionIsNotAllowed ==
    [][\A m \in Messages :
          (/\ Received(m)
           /\ m.json = "object"
           /\ m.target = "task"
           /\ m.function # "aggregated_polling") =>
              /\ sent'.env = m
              /\ sent'.resp.status = NOT_ALLOWED
              /\ UNCHANGED <<cache, docs, task, detached>>]_vars

C13_Witness ==
    /\ sent.env.json = "object"
    /\ sent.env.target = "task"
    /\ sent.env.args = "flat"
    /\ sent.env.function = "web_search"
    /\ sent.resp.status = NOT_ALLOWED
    /\ cache # <<>>

\* C14: a text that is not JSON, or a JSON object without caller, target or args, is
\* answered with status 400 (Failure).
C14_UndecodableIs400 ==
    (\/ sent.env.json = "malformed"
     \/ /\ sent.env.json = "object"
        /\ \/ ~sent.env.caller
           \/ sent.env.target = Absent
           \/ sent.env.args = Absent)
    => sent.resp.status = REQUEST_FAILED

\* C15: for each message ws.send is invoked exactly once, also when the first invocation
\* raises.
C15_OneSendPerMessage ==
    sent.env.json # "none" => sent.sends = 1

====
